---- MODULE Spec2Model ----
(***************************************************************************)
(* Model of mcp-video-gen/main.py: the create_mcq_video orchestrator, its  *)
(* helpers create_image_for_mcq, create_audio_for_mcq, create_video_clip   *)
(* and concatenate_videos, and the filesystem they share.                  *)
(*                                                                         *)
(* One invocation of create_mcq_video is a process whose position is       *)
(* pc[p]; each action is one step of the coroutine between two suspension  *)
(* points (the awaits on asyncio.to_thread) or one synchronous block of    *)
(* the code.  Library calls (pandas, PIL, gTTS, moviepy, os) are black     *)
(* boxes whose success or failure is chosen nondeterministically.          *)
(***************************************************************************)
EXTENDS Integers, Sequences, FiniteSets, TLC

VARIABLES
    csv,                     \* the file at csv_file_path: [kind, lines]
    fontExists,              \* os.path.exists(font_path)
    dirs,                    \* output directories that exist
    files,                   \* the files under the output directories
    pc,                      \* position of each invocation
    output_filename,         \* argument of each invocation
    data_list,               \* rows loaded by each invocation
    idx,                     \* item_num of the row the loop is at
    text_for_speech,         \* text returned by create_image_for_mcq
    individual_video_paths,  \* clips collected so far
    result,                  \* the value returned
    rowState,                \* per row: how far its pipeline got
    failed,                  \* rows whose stage raised (the log of line 320)
    concatCalls,             \* the lists concatenate_videos was called with
    wrote,                   \* the paths each invocation wrote
    handles                  \* clip handles opened and closed by the call
                             \* of create_video_clip for the current row,
                             \* or by the call of concatenate_videos

vars == <<csv, fontExists, dirs, files, pc, output_filename, data_list, idx,
          text_for_speech, individual_video_paths, result, rowState, failed,
          concatCalls, wrote, handles>>

-----------------------------------------------------------------------------
(* Bounds and input sets *)

MaxRows == 2

MaxConcRows == 1

Invocations == {1, 2}

\* Rows of the table: cells are strings, as sequences of characters.
Rows == { << <<>>, <<>> >>,
          << <<" ", " ">>, <<>> >>,
          << <<" ", "a", " ", " ", "b">>, <<>> >>,
          << <<"a">>, <<" ", "b", " ">> >> }

\* A line of the file is either a line with no text (<<>>) or a row of cells.

Lines == {<<>>} \cup Rows

Tables == UNION { [1..n -> Lines] : n \in 0..MaxRows }

\* Output file names, by their base name (the extension is always .mp4).
Filenames == {"a", "b"}

\* Rows used when two invocations run together.
ConcRows == { << <<>>, <<>> >>, << <<"a">>, <<" ", "b", " ">> >> }

ConcTables == UNION { [1..n -> ConcRows] : n \in 0..MaxConcRows }

-----------------------------------------------------------------------------
(* Exceptions *)

ExcClasses == {"RuntimeError", "OSError", "FileNotFoundError",
               "EmptyDataError", "ValueError"}

\* Variant: the handler catches one class only.
CatchesRuntimeErrorOnly(e) == e = "RuntimeError"

\* `except Exception` (lines 318, 356): every class above derives from it.
ExceptException(e) == e \in ExcClasses

-----------------------------------------------------------------------------
(* Strings *)

\* str.split(): the maximal runs of non-space characters.
RECURSIVE Split(_, _)
Split(s, word) ==
    IF s = <<>> THEN (IF word = <<>> THEN <<>> ELSE <<word>>)
    ELSE IF Head(s) = " "
         THEN (IF word = <<>> THEN <<>> ELSE <<word>>) \o Split(Tail(s), <<>>)
         ELSE Split(Tail(s), Append(word, Head(s)))

\* ' '.join(words)
RECURSIVE Join(_)
Join(words) ==
    IF words = <<>> THEN <<>>
    ELSE IF Len(words) = 1 THEN Head(words)
    ELSE Head(words) \o <<" ">> \o Join(Tail(words))

\* text = ' '.join(text.split())
Normalize(text) == Join(Split(text, <<>>))

\* str.strip() of a text whose only spaces are single separators and one
\* trailing space.
Strip(s) ==
    IF s # <<>> /\ s[Len(s)] = " " THEN SubSeq(s, 1, Len(s) - 1) ELSE s

\* The loop of create_image_for_mcq over the cells: every non-empty
\* normalized cell is drawn and added to text_content followed by a space.
\* (textwrap.fill breaks a cell at its spaces into lines that are joined by
\* a space again.)
RECURSIVE TextContent(_, _)
TextContent(data_row, c) ==
    IF c > Len(data_row) THEN <<>>
    ELSE LET text == Normalize(data_row[c])
         IN  IF text = <<>> THEN TextContent(data_row, c + 1)
             ELSE text \o <<" ">> \o TextContent(data_row, c + 1)

\* Variant: a row without text makes a placeholder text.
FlatText_Placeholder(data_row) ==
    IF Strip(TextContent(data_row, 1)) = <<>> THEN <<"-">>
    ELSE Strip(TextContent(data_row, 1))

\* What create_image_for_mcq returns: text_content.strip()
FlatText(data_row) == Strip(TextContent(data_row, 1))

-----------------------------------------------------------------------------
(* Loading the table *)

\* A missing value (NaN) as a cell.
NaN == <<"NaN">>

\* pd.read_csv(csv_file_path, keep_default_na=False, dtype=str): lines
\* without text are skipped, every cell is kept as the string it is (an
\* empty cell is the empty string, not NaN).
RECURSIVE ReadCsv(_)
ReadCsv(lines) ==
    IF lines = <<>> THEN <<>>
    ELSE IF Head(lines) = <<>> THEN ReadCsv(Tail(lines))
    ELSE <<Head(lines)>> \o ReadCsv(Tail(lines))

\* data_frame.dropna(how='all'): drops the rows whose cells are all NaN.
RECURSIVE DropNaAll(_)
DropNaAll(rows) ==
    IF rows = <<>> THEN <<>>
    ELSE IF \A c \in DOMAIN Head(rows) : Head(rows)[c] = NaN
         THEN DropNaAll(Tail(rows))
         ELSE <<Head(rows)>> \o DropNaAll(Tail(rows))

-----------------------------------------------------------------------------
(* Paths and files *)

Kinds == {"mcq_img", "mcq_audio", "mcq_video", "final"}

\* output_dir = abspath("./<base>_output")
OutputDir(filename) == filename

Dirs == { OutputDir(f) : f \in Filenames }

\* Variant: intermediate files are not placed under the output directory.
ItemPath_NoDir(output_dir, kind, item_num) ==
    [dir |-> "a", kind |-> kind, n |-> item_num]

\* os.path.join(output_dir, f"<kind>_{item_num}.<ext>")
ItemPath(output_dir, kind, item_num) ==
    [dir |-> output_dir, kind |-> kind, n |-> item_num]

\* final_video_full_path = os.path.join(output_dir, output_filename)
FinalPath(filename) == [dir |-> OutputDir(filename), kind |-> "final", n |-> 0]

AllPaths == [dir : Dirs, kind : Kinds, n : 0..MaxRows]

NoPath == [dir |-> "", kind |-> "", n |-> 0]

\* A file's content: who wrote it, and whose images and whose audio are in
\* it.  by = 0: the file does not exist.
NoFile == [by |-> 0, img |-> {}, aud |-> {}]

Exists(path) == files[path].by # 0

ImageFile(p) == ItemPath(OutputDir(output_filename[p]), "mcq_img", idx[p])
AudioFile(p) == ItemPath(OutputDir(output_filename[p]), "mcq_audio", idx[p])
VideoFile(p) == ItemPath(OutputDir(output_filename[p]), "mcq_video", idx[p])

-----------------------------------------------------------------------------
(* Results *)

ErrorMessages == {
    "Error: Input CSV file not found",
    "Error: Font file not found",
    "Error: CSV file seems to be empty or contains no valid data rows",
    "Error: CSV file is empty",
    "Error reading CSV file",
    "Error: No individual video clips were successfully generated",
    "Error during final video concatenation: no video paths provided",
    "Error during final video concatenation: clip not found",
    "Error during final video concatenation: encoding failed",
    "Error: An unexpected error occurred during video generation" }

NoResult == [kind |-> "none", msg |-> "", path |-> NoPath]
ErrorResult(m) == [kind |-> "error", msg |-> m, path |-> NoPath]
PathResult(path) == [kind |-> "path", msg |-> "", path |-> path]

-----------------------------------------------------------------------------
(* Clip handles *)

\* The handles a call opened and the handles it closed before it returned
\* or raised.
NoHandles == [opened |-> {}, closed |-> {}]

Handle(name, n) == [name |-> name, n |-> n]

\* The clip variables of create_video_clip.
ClipHandles == {"audio_clip", "image_clip", "video_clip"}

\* The statements of create_video_clip that can raise, in the order of the
\* code: the two os.path.exists checks, AudioFileClip(...), ImageClip(...),
\* set_audio, set_duration / set_fps, write_videofile.
ClipSteps == {"check", "open_audio", "open_image", "set_audio",
              "set_duration", "encode"}

\* The clip variables that are bound when `step` raises, or at the end of
\* the try block ("none"): audio_clip after line 150, image_clip after line
\* 157, video_clip after line 158.
ClipBound(step) ==
    IF step \in {"check", "open_audio"} THEN {}
    ELSE IF step = "open_image" THEN {"audio_clip"}
    ELSE IF step = "set_audio" THEN {"audio_clip", "image_clip"}
    ELSE ClipHandles

\* Variant: the handler closes the audio clip only.
ClipClosed_AudioOnly(step) ==
    IF step = "none" THEN ClipHandles
    ELSE { h \in {"audio_clip"} : h \in ClipBound(step) }

\* The clip variables create_video_clip closes: all three after the write
\* (lines 166-168); in the handler each one that is in locals() (lines
\* 174-176).
ClipClosed(step) ==
    IF step = "none" THEN ClipHandles
    ELSE { h \in ClipHandles : h \in ClipBound(step) }

\* The statements of concatenate_videos that can raise: the check of the
\* list (before the try), the exists check or VideoFileClip(...) of the
\* j-th path ("open"), concatenate_videoclips ("compose"), write_videofile
\* ("encode").
ConcatSteps == {"empty", "open", "compose", "encode"}

\* The indices of the paths whose clip is in `clips` when the try block is
\* left: those before j when the j-th path raised, all of them otherwise.
ConcatClips(paths, step, j) ==
    IF step = "empty" THEN {}
    ELSE IF step = "open" THEN 1..(j - 1)
    ELSE 1..Len(paths)

\* final_clip is bound once concatenate_videoclips returned (line 191).
FinalClipBound(step) == step \in {"encode", "none"}

\* The handles concatenate_videos opened: a VideoFileClip per path appended
\* to clips (line 189) and the final clip (line 191).
ConcatOpened(paths, step, j) ==
    { Handle("clip", i) : i \in ConcatClips(paths, step, j) }
    \cup (IF FinalClipBound(step) THEN {Handle("final_clip", 0)} ELSE {})

\* The handles the finally block closes (lines 196-201): every clip of
\* clips, and final_clip if it is in locals().  The empty-list check raises
\* before the try, so the finally block does not run.
ConcatClosed(paths, step, j) ==
    IF step = "empty" THEN {}
    ELSE { Handle("clip", i) : i \in ConcatClips(paths, step, j) }
         \cup (IF FinalClipBound(step) THEN {Handle("final_clip", 0)} ELSE {})

\* The first path of the list that does not exist (0: all exist).
FirstMissing(paths) ==
    IF \A j \in 1..Len(paths) : Exists(paths[j]) THEN 0
    ELSE CHOOSE j \in 1..Len(paths) :
            /\ ~Exists(paths[j])
            /\ \A i \in 1..(j - 1) : Exists(paths[i])

-----------------------------------------------------------------------------
(* Initial states *)

CsvFiles(tables) ==
    { [kind |-> k, lines |-> <<>>] : k \in {"missing", "unreadable", "empty"} }
    \cup { [kind |-> "table", lines |-> t] : t \in tables }

InitLocals ==
    /\ dirs = {}
    /\ files = [f \in AllPaths |-> NoFile]
    /\ data_list = [p \in Invocations |-> <<>>]
    /\ idx = [p \in Invocations |-> 1]
    /\ text_for_speech = [p \in Invocations |-> <<>>]
    /\ individual_video_paths = [p \in Invocations |-> <<>>]
    /\ result = [p \in Invocations |-> NoResult]
    /\ rowState = [p \in Invocations |-> [i \in 1..MaxRows |-> "pending"]]
    /\ failed = [p \in Invocations |-> {}]
    /\ concatCalls = [p \in Invocations |-> <<>>]
    /\ wrote = [p \in Invocations |-> {}]
    /\ handles = [p \in Invocations |-> NoHandles]

\* One call of the tool.
Init ==
    /\ csv \in CsvFiles(Tables)
    /\ fontExists \in BOOLEAN
    /\ pc = [p \in Invocations |-> IF p = 1 THEN "start" ELSE "absent"]
    /\ output_filename \in { f \in [Invocations -> Filenames] : f[2] = "a" }
    /\ InitLocals

\* Two calls of the tool in flight on the same host.
InitConc ==
    /\ csv \in CsvFiles(ConcTables)
    /\ fontExists \in BOOLEAN
    /\ pc = [p \in Invocations |-> "start"]
    /\ output_filename \in { f \in [Invocations -> Filenames] : f[1] = "a" }
    /\ InitLocals

-----------------------------------------------------------------------------
(* Leaving create_mcq_video *)

Return(p, r) ==
    /\ result' = [result EXCEPT ![p] = r]
    /\ pc' = [pc EXCEPT ![p] = "done"]

\* An exception that reaches the outer try of create_mcq_video (line 246):
\* the handler of line 356 turns it into a string; anything it does not
\* catch leaves the coroutine as an exception.
OuterExcept(p, e) ==
    IF ExceptException(e)
    THEN Return(p, ErrorResult("Error: An unexpected error occurred during video generation"))
    ELSE /\ pc' = [pc EXCEPT ![p] = "raised"]
         /\ UNCHANGED result

\* An exception raised by a stage inside the per-row try (line 288).
RowExcept(p, e) ==
    IF ExceptException(e)
    THEN /\ pc' = [pc EXCEPT ![p] = "except"]
         /\ UNCHANGED result
    ELSE OuterExcept(p, e)

\* The top of the loop with the next row at item_num `next`, reached from
\* the statement before the loop or from the end of an iteration: the next
\* row is rendered if there is one; after the last row, line 328 returns
\* the aggregate error if no clip was collected and section 4 concatenates
\* otherwise.
LoopHead(p, next, rows, paths) ==
    IF next <= Len(rows)
    THEN /\ pc' = [pc EXCEPT ![p] = "render"]
         /\ UNCHANGED result
    ELSE IF paths = <<>>
    THEN Return(p, ErrorResult("Error: No individual video clips were successfully generated"))
    ELSE /\ pc' = [pc EXCEPT ![p] = "concat"]
         /\ UNCHANGED result

-----------------------------------------------------------------------------
(* 1. Input validation and setup *)

Preflight(p) ==
    /\ pc[p] = "start"
    /\ UNCHANGED handles
    /\ IF csv.kind = "missing"
       THEN Return(p, ErrorResult("Error: Input CSV file not found"))
       ELSE IF ~fontExists
       THEN Return(p, ErrorResult("Error: Font file not found"))
       ELSE /\ pc' = [pc EXCEPT ![p] = "makedirs"]
            /\ UNCHANGED result
    /\ UNCHANGED <<csv, fontExists, dirs, files, output_filename, data_list, idx,
                   text_for_speech, individual_video_paths, rowState, failed,
                   concatCalls, wrote>>

\* os.makedirs(output_dir, exist_ok=True)
MakeDirs(p) ==
    /\ pc[p] = "makedirs"
    /\ UNCHANGED handles
    /\ \E ok \in BOOLEAN :
         IF ok
         THEN /\ dirs' = dirs \cup {OutputDir(output_filename[p])}
              /\ pc' = [pc EXCEPT ![p] = "load"]
              /\ UNCHANGED result
         ELSE /\ OuterExcept(p, "OSError")
              /\ UNCHANGED dirs
    /\ UNCHANGED <<csv, fontExists, files, output_filename, data_list, idx,
                   text_for_speech, individual_video_paths, rowState, failed,
                   concatCalls, wrote>>

(* 2. Load data *)

LoadData(p) ==
    /\ pc[p] = "load"
    /\ UNCHANGED handles
    /\ IF csv.kind = "empty"
       THEN /\ Return(p, ErrorResult("Error: CSV file is empty"))
            /\ UNCHANGED <<data_list, idx>>
       ELSE IF csv.kind # "table"
       THEN /\ Return(p, ErrorResult("Error reading CSV file"))
            /\ UNCHANGED <<data_list, idx>>
       ELSE LET data_frame == DropNaAll(ReadCsv(csv.lines))
            IN  IF data_frame = <<>>
                THEN /\ Return(p, ErrorResult("Error: CSV file seems to be empty or contains no valid data rows"))
                     /\ UNCHANGED <<data_list, idx>>
                ELSE /\ data_list' = [data_list EXCEPT ![p] = data_frame]
                     /\ idx' = [idx EXCEPT ![p] = 1]
                     /\ LoopHead(p, 1, data_frame, <<>>)
    /\ UNCHANGED <<csv, fontExists, dirs, files, output_filename,
                   text_for_speech, individual_video_paths, rowState, failed,
                   concatCalls, wrote>>

-----------------------------------------------------------------------------
(* 3. Process each MCQ item *)

\* Variant: the loop steps over a row.
NextItem_Skip(i) == i + 2

\* for idx, data_row in enumerate(data_list): item_num of the next row
NextItem(i) == i + 1

\* Variant: a clip is put in front of the list.
AppendClip_Front(paths, video_file) == <<video_file>> \o paths

\* individual_video_paths.append(video_file)
AppendClip(paths, video_file) == Append(paths, video_file)

\* A stage of the current row raised: the row is given up (line 318).
RowFails(p) ==
    /\ rowState' = [rowState EXCEPT ![p][idx[p]] = "skipped"]
    /\ failed' = [failed EXCEPT ![p] = @ \cup {idx[p]}]
    /\ RowExcept(p, "RuntimeError")

\* A stage wrote (all or a part of) the file at path.
Writes(p, path, content) ==
    /\ files' = [files EXCEPT ![path] = content]
    /\ wrote' = [wrote EXCEPT ![p] = @ \cup {path}]

\* a. await asyncio.to_thread(create_image_for_mcq, ...): draws the row and
\* saves the image; raises when the font cannot be loaded or the image
\* cannot be saved (a failed save may leave a part of the file).
Render(p) ==
    /\ pc[p] = "render"
    /\ UNCHANGED handles
    /\ \E ok \in BOOLEAN, partial \in BOOLEAN :
         /\ IF ok \/ partial
            THEN Writes(p, ImageFile(p), [by |-> p, img |-> {p}, aud |-> {}])
            ELSE UNCHANGED <<files, wrote>>
         /\ IF ok
            THEN /\ text_for_speech' =
                      [text_for_speech EXCEPT ![p] = FlatText(data_list[p][idx[p]])]
                 /\ rowState' = [rowState EXCEPT ![p][idx[p]] = "rendered"]
                 /\ pc' = [pc EXCEPT ![p] = "check_text"]
                 /\ UNCHANGED <<failed, result>>
            ELSE /\ RowFails(p)
                 /\ UNCHANGED text_for_speech
    /\ UNCHANGED <<csv, fontExists, dirs, output_filename, data_list, idx,
                   individual_video_paths, concatCalls>>

\* if not text_for_speech: continue
CheckText(p) ==
    /\ pc[p] = "check_text"
    /\ UNCHANGED handles
    /\ IF text_for_speech[p] = <<>>
       THEN /\ rowState' = [rowState EXCEPT ![p][idx[p]] = "skipped"]
            /\ idx' = [idx EXCEPT ![p] = NextItem(idx[p])]
            /\ LoopHead(p, NextItem(idx[p]), data_list[p], individual_video_paths[p])
       ELSE /\ pc' = [pc EXCEPT ![p] = "narrate"]
            /\ UNCHANGED <<rowState, idx, result>>
    /\ UNCHANGED <<csv, fontExists, dirs, files, output_filename, data_list,
                   text_for_speech, individual_video_paths, failed,
                   concatCalls, wrote>>

\* b. await asyncio.to_thread(create_audio_for_mcq, ...): gTTS synthesis and
\* save; any failure is raised as RuntimeError.
Narrate(p) ==
    /\ pc[p] = "narrate"
    /\ UNCHANGED handles
    /\ \E ok \in BOOLEAN, partial \in BOOLEAN :
         /\ IF ok \/ partial
            THEN Writes(p, AudioFile(p), [by |-> p, img |-> {}, aud |-> {p}])
            ELSE UNCHANGED <<files, wrote>>
         /\ IF ok
            THEN /\ rowState' = [rowState EXCEPT ![p][idx[p]] = "narrated"]
                 /\ pc' = [pc EXCEPT ![p] = "clip"]
                 /\ UNCHANGED <<failed, result>>
            ELSE RowFails(p)
    /\ UNCHANGED <<csv, fontExists, dirs, output_filename, data_list, idx,
                   text_for_speech, individual_video_paths, concatCalls>>

\* The clip create_video_clip writes: the image and the audio found at the
\* row's paths, whoever wrote them.
ClipContent(p) ==
    [by |-> p, img |-> files[ImageFile(p)].img, aud |-> files[AudioFile(p)].aud]

\* c. await asyncio.to_thread(create_video_clip, ...): raises at `step`
\* ("check" exactly when the image or the audio is missing), or runs to the
\* end ("none").  Only write_videofile writes the clip, so a part of the
\* file can be left only when the encoding fails.
Clip(p) ==
    /\ pc[p] = "clip"
    /\ \E step \in ClipSteps \cup {"none"}, partial \in BOOLEAN :
         /\ (step = "check") <=> ~(Exists(ImageFile(p)) /\ Exists(AudioFile(p)))
         /\ partial => step = "encode"
         /\ IF step = "none" \/ partial
            THEN Writes(p, VideoFile(p), ClipContent(p))
            ELSE UNCHANGED <<files, wrote>>
         /\ handles' = [handles EXCEPT ![p] =
                          [opened |-> { Handle(h, idx[p]) : h \in ClipBound(step) },
                           closed |-> { Handle(h, idx[p]) : h \in ClipClosed(step) }]]
         /\ IF step = "none"
            THEN /\ rowState' = [rowState EXCEPT ![p][idx[p]] = "clipped"]
                 /\ pc' = [pc EXCEPT ![p] = "append"]
                 /\ UNCHANGED <<failed, result>>
            ELSE RowFails(p)
    /\ UNCHANGED <<csv, fontExists, dirs, output_filename, data_list, idx,
                   text_for_speech, individual_video_paths, concatCalls>>

\* individual_video_paths.append(video_file), and on to the next row.
AppendPath(p) ==
    /\ pc[p] = "append"
    /\ handles' = [handles EXCEPT ![p] = NoHandles]
    /\ individual_video_paths' =
         [individual_video_paths EXCEPT ![p] = AppendClip(@, VideoFile(p))]
    /\ rowState' = [rowState EXCEPT ![p][idx[p]] = "done"]
    /\ idx' = [idx EXCEPT ![p] = NextItem(idx[p])]
    /\ LoopHead(p, NextItem(idx[p]), data_list[p],
                AppendClip(individual_video_paths[p], VideoFile(p)))
    /\ UNCHANGED <<csv, fontExists, dirs, files, output_filename, data_list,
                   text_for_speech, failed, concatCalls, wrote>>

\* The files the handler of line 318 removes, in its order.
RowFiles(p) == <<ImageFile(p), AudioFile(p), VideoFile(p)>>

\* The handler of the per-row try: removes the row's files that exist, then
\* continues.  os.remove can raise (OSError) on a file that exists; the
\* files before it are gone by then, and the exception leaves the handler.
\* k is the file whose removal raises (0: none does).
Cleanup(p) ==
    /\ pc[p] = "except"
    /\ handles' = [handles EXCEPT ![p] = NoHandles]
    /\ \E k \in 0..Len(RowFiles(p)) :
         /\ k # 0 => Exists(RowFiles(p)[k])
         /\ LET gone == IF k = 0 THEN { RowFiles(p)[j] : j \in 1..Len(RowFiles(p)) }
                        ELSE { RowFiles(p)[j] : j \in 1..(k - 1) }
            IN  files' = [f \in AllPaths |-> IF f \in gone THEN NoFile ELSE files[f]]
         /\ IF k = 0
            THEN /\ idx' = [idx EXCEPT ![p] = NextItem(idx[p])]
                 /\ LoopHead(p, NextItem(idx[p]), data_list[p],
                             individual_video_paths[p])
            ELSE /\ OuterExcept(p, "OSError")
                 /\ UNCHANGED idx
    /\ UNCHANGED <<csv, fontExists, dirs, output_filename, data_list,
                   text_for_speech, individual_video_paths, rowState, failed,
                   concatCalls, wrote>>

-----------------------------------------------------------------------------
(* 4. Concatenate video clips *)

\* The final video concatenate_videos writes: the clips found at the paths
\* of the list, whoever wrote them.
FinalContent(p, paths) ==
    [by |-> p,
     img |-> UNION { files[paths[j]].img : j \in 1..Len(paths) },
     aud |-> UNION { files[paths[j]].aud : j \in 1..Len(paths) }]

\* Variant: the handler of line 337 does not return.
ConcatReturn_FallThrough(p, ok) == PathResult(FinalPath(output_filename[p]))

\* What create_mcq_video returns after concatenate_videos ended (lines
\* 333-354); "encoding failed" stands for every failure inside moviepy.
ConcatReturn(p, ok) ==
    IF ok THEN PathResult(FinalPath(output_filename[p]))
    ELSE ErrorResult("Error during final video concatenation: encoding failed")

\* await asyncio.to_thread(concatenate_videos, individual_video_paths,
\* final_video_full_path), and the return that follows.  concatenate_videos
\* raises at `step` (at the j-th path for "open") or runs to the end
\* ("none"): on an empty list, on a path that does not exist or cannot be
\* opened, and when composing or encoding fails (the encoding may leave a
\* part of the final file).  The first path that does not exist stops the
\* loop of line 186 at the latest.
Concatenate(p) ==
    /\ pc[p] = "concat"
    /\ concatCalls' = [concatCalls EXCEPT ![p] = Append(@, individual_video_paths[p])]
    /\ LET paths == individual_video_paths[p]
           final == FinalPath(output_filename[p])
           m == FirstMissing(paths)
       IN  \E step \in ConcatSteps \cup {"none"}, j \in 0..Len(paths),
              partial \in BOOLEAN :
             /\ (step = "empty") <=> (paths = <<>>)
             /\ (step = "open") <=> (j >= 1)
             /\ m # 0 => (step = "open" /\ j <= m)
             /\ partial => step = "encode"
             /\ handles' = [handles EXCEPT ![p] =
                              [opened |-> ConcatOpened(paths, step, j),
                               closed |-> ConcatClosed(paths, step, j)]]
             /\ IF step = "none" \/ partial
                THEN Writes(p, final, FinalContent(p, paths))
                ELSE UNCHANGED <<files, wrote>>
             /\ IF step = "empty"
                THEN Return(p, ErrorResult("Error during final video concatenation: no video paths provided"))
                ELSE IF step = "open" /\ j = m
                THEN Return(p, ErrorResult("Error during final video concatenation: clip not found"))
                ELSE Return(p, ConcatReturn(p, step = "none"))
    /\ UNCHANGED <<csv, fontExists, dirs, output_filename, data_list, idx,
                   text_for_speech, individual_video_paths, rowState, failed>>

-----------------------------------------------------------------------------
(* Specifications *)

Next ==
    \E p \in Invocations :
       \/ Preflight(p)
       \/ MakeDirs(p)
       \/ LoadData(p)
       \/ Render(p)
       \/ CheckText(p)
       \/ Narrate(p)
       \/ Clip(p)
       \/ AppendPath(p)
       \/ Cleanup(p)
       \/ Concatenate(p)

Spec == Init /\ [][Next]_vars

SpecConc == InitConc /\ [][Next]_vars

TypeOK ==
    /\ pc \in [Invocations -> {"absent", "start", "makedirs", "load", "render", "check_text", "narrate", "clip",
                               "append", "except", "concat", "done",
                               "raised"}]
    /\ \A p \in Invocations :
         /\ result[p].kind \in {"none", "error", "path"}
         /\ result[p].kind = "error" => result[p].msg \in ErrorMessages
         /\ Len(concatCalls[p]) <= 1
         /\ wrote[p] \subseteq AllPaths
         /\ handles[p].closed \subseteq handles[p].opened
         /\ \A h \in handles[p].opened :
               /\ h.name \in ClipHandles \cup {"clip", "final_clip"}
               /\ h.n \in 0..MaxRows

-----------------------------------------------------------------------------
(* Vocabulary of the properties *)

Unexpected == "Error: An unexpected error occurred during video generation"
NoClips == "Error: No individual video clips were successfully generated"
ClipNotFound == "Error during final video concatenation: clip not found"
EncodingFailed == "Error during final video concatenation: encoding failed"

Returned(p) == pc[p] = "done"

RowsOf(p) == 1..Len(data_list[p])

Terminal(s) == s \in {"done", "skipped"}

\* The handler of line 318 is still at work on row i.
InCleanup(p, i) == pc[p] = "except" /\ idx[p] = i

ItemFiles(p, i) ==
    { ItemPath(OutputDir(output_filename[p]), k, i) :
        k \in {"mcq_img", "mcq_audio", "mcq_video"} }

\* Every cell of the row is empty after whitespace normalization.
AllCellsEmpty(data_row) == \A c \in DOMAIN data_row : Normalize(data_row[c]) = <<>>

\* A line without text, or a row whose cells are all empty strings.
BlankLine(line) == \A c \in DOMAIN line : line[c] = <<>>

\* The clips of the rows that completed all three stages, in row order.
RECURSIVE DoneClips(_, _)
DoneClips(p, i) ==
    IF i > Len(data_list[p]) THEN <<>>
    ELSE (IF rowState[p][i] = "done"
          THEN <<ItemPath(OutputDir(output_filename[p]), "mcq_video", i)>>
          ELSE <<>>) \o DoneClips(p, i + 1)

-----------------------------------------------------------------------------
(* C1 *)

\* C1: create_mcq_video never raises to its caller: whatever the input and
\* whichever stage fails, an invocation that has ended has returned a
\* string, which is the final video's path or one of the error messages.
C1_NeverRaises ==
    \A p \in Invocations :
       /\ pc[p] # "raised"
       /\ Returned(p) =>
            \/ result[p].kind = "error" /\ result[p].msg \in ErrorMessages
            \/ result[p].kind = "path" /\ result[p].path = FinalPath(output_filename[p])

\* C1 witness: the removal of a failed row's file raised, and the call
\* returned the unexpected-error string.
C1_Witness ==
    /\ Returned(1)
    /\ failed[1] # {}
    /\ result[1] = ErrorResult(Unexpected)

-----------------------------------------------------------------------------
(* C2 *)

\* C2: when a stage of a row fails, every file of that row is removed once
\* the handler is through, and the run does not return before every row of
\* the table has been processed.
C2_RowFailureNeverAborts ==
    \A p \in Invocations : \A i \in failed[p] :
       /\ ~InCleanup(p, i) => \A f \in ItemFiles(p, i) : ~Exists(f)
       /\ Returned(p) => \A j \in RowsOf(p) : Terminal(rowState[p][j])

-----------------------------------------------------------------------------
(* C3 *)

\* C3 (as stated): for a row whose cells are all empty after whitespace
\* normalization, no image, audio or clip file is written.
C3_EmptyRowWritesNothing ==
    \A p \in Invocations : \A i \in RowsOf(p) :
       AllCellsEmpty(data_list[p][i]) => wrote[p] \cap ItemFiles(p, i) = {}

\* C3 (amended): a row whose cells are all empty after whitespace
\* normalization never gets an audio or a clip file and never goes past
\* rendered; once it is skipped for want of text its image file has been
\* written, and the loop has gone on to the next row.
C3_EmptyRowSkipped ==
    \A p \in Invocations : \A i \in RowsOf(p) :
       AllCellsEmpty(data_list[p][i]) =>
          /\ ItemPath(OutputDir(output_filename[p]), "mcq_audio", i) \notin wrote[p]
          /\ ItemPath(OutputDir(output_filename[p]), "mcq_video", i) \notin wrote[p]
          /\ rowState[p][i] \in {"pending", "rendered", "skipped"}
          /\ (rowState[p][i] = "skipped" /\ i \notin failed[p]) =>
                /\ ItemPath(OutputDir(output_filename[p]), "mcq_img", i) \in wrote[p]
                /\ idx[p] > i
                /\ i < Len(data_list[p]) =>
                      \/ rowState[p][i + 1] # "pending"
                      \/ idx[p] = i + 1 /\ pc[p] = "render"

\* C3 witness: an all-empty row was rendered and skipped, its image is on
\* disk, and the row after it went through to done.
C3_Witness ==
    /\ Len(data_list[1]) = 2
    /\ AllCellsEmpty(data_list[1][1])
    /\ rowState[1][1] = "skipped"
    /\ 1 \notin failed[1]
    /\ Exists(ItemPath(OutputDir(output_filename[1]), "mcq_img", 1))
    /\ rowState[1][2] = "done"

-----------------------------------------------------------------------------
(* C4 *)

\* The error string of the global failure condition that holds, in the
\* order the code meets them.
GlobalFailureMessage ==
    IF csv.kind = "missing" THEN "Error: Input CSV file not found"
    ELSE IF ~fontExists THEN "Error: Font file not found"
    ELSE IF csv.kind = "unreadable" THEN "Error reading CSV file"
    ELSE IF csv.kind = "empty" THEN "Error: CSV file is empty"
    ELSE "Error: CSV file seems to be empty or contains no valid data rows"

\* C4: when the input file is missing, the font is missing, the input is
\* unreadable or the table has no row left once its fully-blank rows are
\* dropped (every row blank included), the invocation writes no file at all
\* and, once the output directory is there or the pre-flight check has
\* failed, returns the error string of that condition.
C4_GlobalFailureAborts ==
    \A p \in Invocations :
       LET blankTable ==
               /\ csv.kind = "table"
               /\ \A j \in 1..Len(csv.lines) : BlankLine(csv.lines[j])
           global == csv.kind # "table" \/ ~fontExists \/ blankTable
           preflightDone ==
               \/ csv.kind = "missing"
               \/ ~fontExists
               \/ OutputDir(output_filename[p]) \in dirs
       IN  global =>
              /\ wrote[p] = {}
              /\ (Returned(p) /\ preflightDone) =>
                    result[p] = ErrorResult(GlobalFailureMessage)

-----------------------------------------------------------------------------
(* C5 *)

\* The table has a row with text.
HasTextRow ==
    /\ csv.kind = "table"
    /\ \E j \in 1..Len(csv.lines) : ~AllCellsEmpty(csv.lines[j])

\* C5 (as stated): with a valid font and a table with a non-blank row, the
\* invocation (its output directory made) returns the final video's path,
\* and a file exists there.
C5_AlwaysReturnsPath ==
    \A p \in Invocations :
       (/\ Returned(p)
        /\ fontExists
        /\ HasTextRow
        /\ OutputDir(output_filename[p]) \in dirs) =>
          /\ result[p].kind = "path"
          /\ Exists(result[p].path)

\* C5 (amended): with a valid font and a table with a non-blank row, the
\* invocation returns the final video's path only after a concatenation of
\* at least one clip succeeded, and then the file exists at that path; when
\* it returns an error that is not a concatenation or unexpected error, no
\* row completed its three stages.
C5_PathOnlyAfterConcat ==
    \A p \in Invocations :
       (Returned(p) /\ fontExists /\ HasTextRow) =>
          /\ result[p].kind = "path" =>
                /\ result[p].path = FinalPath(output_filename[p])
                /\ Exists(result[p].path)
                /\ Len(concatCalls[p]) = 1
                /\ concatCalls[p][1] # <<>>
                /\ \E i \in RowsOf(p) : rowState[p][i] = "done"
          /\ (result[p].kind = "error"
              /\ result[p].msg \notin {ClipNotFound, EncodingFailed, Unexpected}) =>
                \A i \in RowsOf(p) : rowState[p][i] # "done"

\* C5 witness: the path is returned and the file is there, one row of two
\* having failed.
C5_Witness ==
    /\ Returned(1)
    /\ result[1] = PathResult(FinalPath(output_filename[1]))
    /\ Exists(FinalPath(output_filename[1]))
    /\ failed[1] # {}

-----------------------------------------------------------------------------
(* C6 *)

\* C6: concatenate_videos is called at most once per invocation, only when
\* the loop is over (every row done or skipped), and the list it is given
\* is exactly the clips of the rows that completed render, narrate and
\* clip, in row order.
C6_ConcatOnceInRowOrder ==
    \A p \in Invocations :
       /\ Len(concatCalls[p]) <= 1
       /\ (pc[p] = "concat" \/ Len(concatCalls[p]) = 1) =>
             /\ \A i \in RowsOf(p) : Terminal(rowState[p][i])
             /\ individual_video_paths[p] = DoneClips(p, 1)
       /\ Len(concatCalls[p]) = 1 =>
             /\ Returned(p)
             /\ concatCalls[p][1] = DoneClips(p, 1)

\* C6 witness: two rows both done, and the concatenator was given their two
\* clips.
C6_Witness ==
    /\ Len(data_list[1]) = 2
    /\ \A i \in RowsOf(1) : rowState[1][i] = "done"
    /\ Len(concatCalls[1]) = 1
    /\ Len(concatCalls[1][1]) = 2

\* One of two rows failed, and the concatenator was given one clip.
C6_OneRowFailed ==
    /\ Len(data_list[1]) = 2
    /\ failed[1] = {1}
    /\ Len(concatCalls[1]) = 1
    /\ Len(concatCalls[1][1]) = 1

-----------------------------------------------------------------------------
(* C7 *)

\* C7: when every row of the table failed or was skipped, the invocation
\* returns the aggregate error string and has not called the concatenator.
C7_NoClipsAggregateError ==
    \A p \in Invocations :
       (/\ Returned(p)
        /\ data_list[p] # <<>>
        /\ \A i \in RowsOf(p) : rowState[p][i] = "skipped") =>
          /\ result[p] = ErrorResult(NoClips)
          /\ concatCalls[p] = <<>>

\* The part of C7 that holds: without a clip the concatenator is not called.
C7_NoClipsNoConcat ==
    \A p \in Invocations :
       (\A i \in RowsOf(p) : rowState[p][i] # "done") => concatCalls[p] = <<>>

-----------------------------------------------------------------------------
(* C8 *)

\* C8: a row's clip is in the list of clips exactly when the row is done,
\* and when the loop is over (the invocation has returned after loading a
\* table) every row is done or skipped.
C8_RowStateMachine ==
    \A p \in Invocations :
       /\ \A i \in RowsOf(p) :
             rowState[p][i] = "done" <=>
                \E j \in 1..Len(individual_video_paths[p]) :
                   individual_video_paths[p][j] =
                      ItemPath(OutputDir(output_filename[p]), "mcq_video", i)
       /\ (Returned(p) /\ data_list[p] # <<>>) =>
             \A i \in RowsOf(p) : Terminal(rowState[p][i])

\* The steps a row may take.
RowStep(a, b) ==
    \/ a = b
    \/ a = "pending" /\ b \in {"rendered", "skipped"}
    \/ a = "rendered" /\ b \in {"narrated", "skipped"}
    \/ a = "narrated" /\ b \in {"clipped", "skipped"}
    \/ a = "clipped" /\ b = "done"

\* The part of C8 that holds: every row moves along
\* pending -> rendered -> narrated -> clipped -> done or to skipped.
C8_RowSteps ==
    [][\A p \in Invocations : \A i \in 1..MaxRows :
          RowStep(rowState[p][i], rowState'[p][i])]_vars

-----------------------------------------------------------------------------
(* C9 *)

\* The rows of p that are in progress: past pending and not yet done or
\* skipped, or skipped with the handler still removing their files.
InProgress(p) ==
    { i \in RowsOf(p) :
        \/ rowState[p][i] \in {"rendered", "narrated", "clipped"}
        \/ InCleanup(p, i) }

\* C9: the row loop is sequential: every row before the current one is done
\* or skipped with its cleanup over, every row after it is still pending,
\* so at most one row is in progress.
C9_Sequential ==
    \A p \in Invocations :
       /\ \A i \in RowsOf(p) :
             /\ i < idx[p] => Terminal(rowState[p][i]) /\ ~InCleanup(p, i)
             /\ i > idx[p] => rowState[p][i] = "pending"
       /\ InProgress(p) \subseteq {idx[p]}
       /\ Cardinality(InProgress(p)) <= 1

\* C9 witness: row 1 failed and was cleaned up, row 2 is in progress.
C9_Witness ==
    /\ Len(data_list[1]) = 2
    /\ failed[1] = {1}
    /\ rowState[1][1] = "skipped"
    /\ rowState[1][2] = "narrated"

-----------------------------------------------------------------------------
(* C10 *)

\* C10: invocations with distinct output directories never touch each
\* other's files: they write disjoint paths, every file an invocation wrote
\* for a row that did not fail is still there as it wrote it, made of its
\* own image and audio, and every clip in its list exists.
C10_DistinctDirsIsolated ==
    \A p \in Invocations : \A q \in Invocations \ {p} :
       OutputDir(output_filename[p]) # OutputDir(output_filename[q]) =>
          /\ wrote[p] \cap wrote[q] = {}
          /\ \A f \in wrote[p] :
                f.n \notin failed[p] =>
                   /\ files[f].by = p
                   /\ files[f].img \subseteq {p}
                   /\ files[f].aud \subseteq {p}
          /\ \A j \in 1..Len(individual_video_paths[p]) :
                Exists(individual_video_paths[p][j])
          /\ result[p] # ErrorResult(ClipNotFound)

\* C10 witness: with one output directory for both, an invocation returned
\* a final video that holds the other invocation's image or audio.
C10_Witness ==
    \E p \in Invocations : \E q \in Invocations \ {p} :
       /\ OutputDir(output_filename[p]) = OutputDir(output_filename[q])
       /\ Returned(p)
       /\ result[p].kind = "path"
       /\ files[result[p].path].by = p
       /\ q \in files[result[p].path].img \cup files[result[p].path].aud

\* With one output directory for both, a clip in an invocation's list was
\* gone when it concatenated.
C10_ClipGone ==
    \E p \in Invocations : \E q \in Invocations \ {p} :
       /\ OutputDir(output_filename[p]) = OutputDir(output_filename[q])
       /\ result[p] = ErrorResult(ClipNotFound)

\* C11: on every path out of create_video_clip and concatenate_videos,
\* success or failure at any step, every audio, image and video clip handle
\* the call opened has been closed when the call returns or raises.  The
\* last conjunct is the call of concatenate_videos with an empty list, which
\* create_mcq_video never makes.
C11_NoHandleLeftOpen ==
    /\ \A p \in Invocations : handles[p].opened \subseteq handles[p].closed
    /\ ConcatOpened(<<>>, "empty", 0) \subseteq ConcatClosed(<<>>, "empty", 0)

\* C11 witness: concatenate_videos was called with two clips and failed on
\* the second one, after it had opened the first, which it closed.
C11_Witness ==
    /\ Len(concatCalls[1]) = 1
    /\ Len(concatCalls[1][1]) = 2
    /\ result[1].kind = "error"
    /\ handles[1].opened = {Handle("clip", 1)}
    /\ handles[1].closed = {Handle("clip", 1)}

\* create_video_clip failed while encoding the clip of the second row, with
\* its three clips open, and closed them.
C11_ClipEncodeFailed ==
    /\ pc[1] = "except"
    /\ idx[1] = 2
    /\ VideoFile(1) \in wrote[1]
    /\ handles[1].opened = { Handle(h, 2) : h \in ClipHandles }
    /\ handles[1].closed = handles[1].opened

\* concatenate_videos ran to the end: it opened a clip per path and the
\* final clip, and closed them all.
C11_ConcatDone ==
    /\ result[1].kind = "path"
    /\ handles[1].opened = {Handle("clip", 1), Handle("clip", 2),
                            Handle("final_clip", 0)}
    /\ handles[1].closed = handles[1].opened

====
